---- MODULE Spec2Model ----
(***************************************************************************)
(* giffer: walk a directory for jpeg files, decode and quantize them in    *)
(* parallel goroutines bounded by a weighted semaphore, store each frame   *)
(* in its slot of gifInfo under a mutex, join, then open the output file   *)
(* and encode the animated gif.  The model follows main() of src/main.go;  *)
(* the older main() of src/unnamed/part_001 is the same program without   *)
(* the empty-input check and with a single argument-count check, selected  *)
(* by the variable build.                                                  *)
(***************************************************************************)
EXTENDS Integers, Sequences, FiniteSets, TLC

\* ------------------------------------------------------------ bounds
MaxEntries == 3        \* entries the directory walk visits
MaxCPUs == 2           \* largest runtime.NumCPU() explored
MaxPrior == 2          \* blocks of a file another process puts at the output path
MaxPictures == 8       \* distinct pictures given to imageToPaletted on its own
MaxApply == 2          \* times imageToPaletted is applied to its own result

\* ------------------------------------------------------------ inputs
\* Kinds of directory entry the walk can meet: a directory, a file that is
\* not a jpeg by name, and jpeg-named files that decode, fail to decode, or
\* fail to open.
EntryKinds ==
    { [isDir |-> TRUE,  ext |-> "",     data |-> "none"],
      [isDir |-> FALSE, ext |-> "png",  data |-> "jpeg"],
      [isDir |-> FALSE, ext |-> "jpg",  data |-> "jpeg"],
      [isDir |-> FALSE, ext |-> "JPEG", data |-> "garbage"],
      [isDir |-> FALSE, ext |-> "Jpg",  data |-> "noperm"] }

\* All sequences over S of length at most n.
SeqsUpTo(S, n) == UNION { [1..k -> S] : k \in 0..n }

\* The -t values explored (flag default 100).
DelayChoices == {100, 109}

VARIABLES
    build,      \* "main.go" or "part_001": which main() runs
    version,    \* -v flag
    nargs,      \* len(flag.Args())
    delayMs,    \* -t flag
    numcpus,    \* runtime.NumCPU()
    rootOk,     \* the root directory can be lstat'ed
    entries,    \* the entries filepath.Walk visits, in walk order
    pc,         \* position of main()
    exit,       \* exit status once pc = "exit": 0 (return) or 2 (panic)
    report,     \* the error main() logged last ("none" if none)
    fileErrs,   \* number of per-file errors logged by the tasks
    imgPaths,   \* collected paths (indices into entries)
    Image,      \* gifInfo.Image
    Delay,      \* gifInfo.Delay
    next,       \* loop index of the spawn loop
    tpc,        \* position of each goroutine
    frame,      \* each goroutine's local result of processJpeg
    sem,        \* units of the semaphore currently held
    mutex,      \* index of the goroutine holding the mutex, 0 if free
    wg,         \* WaitGroup counter
    bar,        \* progress bar counter
    order,      \* history: the slot indices in the order they were written
    nOpen,      \* source files currently open
    outFile,    \* the output path: [exists, by (who created it), data]
    gifFile,    \* main() holds an open handle on the output path
    fsWrites,   \* file-system writes performed by this run
    run,        \* 1 in the first run, 2 in a repeated run on the same input
    first,      \* result of the first run, kept for comparison
    calls,      \* history: number of processJpeg calls of each goroutine
    img,        \* the argument of imageToPaletted when it is applied on its own
    pm          \* the results of applying imageToPaletted to img again and again

vars == << build, version, nargs, delayMs, numcpus, rootOk, entries, pc, exit,
           report, fileErrs, imgPaths, Image, Delay, next, tpc, frame, sem,
           mutex, wg, bar, order, nOpen, outFile, gifFile, fsWrites, run, first,
           calls, img, pm >>

inputs == << build, version, nargs, delayMs, numcpus, rootOk, entries >>
mainLocals == << imgPaths, next >>
gifInfo == << Image, Delay >>
sync == << sem, mutex, wg >>
fs == << outFile, gifFile, fsWrites >>
twoRuns == << run, first >>
progress == << bar, order >>
quant == << img, pm >>

\* ------------------------------------------------------------ values
Nil == [kind |-> "nil", src |-> 0, palette |-> "none"]

Block(tag, m, d) == [tag |-> tag, img |-> m, delay |-> d]
OldBlock == Block("old", Nil, 0)
Absent == [exists |-> FALSE, by |-> "nobody", data |-> << >>]
PriorFiles == { [exists |-> TRUE, by |-> "other", data |-> [i \in 1..k |-> OldBlock]] : k \in 0..MaxPrior }

Tasks == DOMAIN tpc

\* ------------------------------------------------------------ path collection
\* strings.EqualFold on the extensions that occur: simple case folding.
Fold(ext) ==
    CASE ext = "JPG" -> "jpg"
      [] ext = "Jpg" -> "jpg"
      [] ext = "JPEG" -> "jpeg"
      [] ext = "Jpeg" -> "jpeg"
      [] ext = "PNG" -> "png"
      [] OTHER -> ext

EqualFold(a, b) == Fold(a) = Fold(b)

\* The callback of filepath.Walk applied to entry k: the paths after the visit.
WalkFn(paths, es, k) ==
    IF es[k].isDir THEN paths
    ELSE IF ~(EqualFold(es[k].ext, "jpg") \/ EqualFold(es[k].ext, "jpeg")) THEN paths
    ELSE Append(paths, k)

\* filepath.Walk over the entries k..Len(es) in walk order.
RECURSIVE WalkFrom(_, _, _)
WalkFrom(paths, es, k) ==
    IF k > Len(es) THEN paths
    ELSE WalkFrom(WalkFn(paths, es, k), es, k + 1)

\* ------------------------------------------------------------ decoding
\* jpeg.Decode never returns a paletted image.
Decoded(path) == [kind |-> "ycbcr", src |-> path, palette |-> "none"]

\* The palette of the result: an image that is a *image.Paletted keeps its own,
\* any other image gets the one the median cut quantizer computes.
\* Mutant: every image is quantized again, also a paletted one.
imageToPalettedAlways(m) ==
    [kind |-> "paletted", src |-> m.src, palette |-> "mediancut"]

imageToPaletted(m) ==
    IF m.kind = "paletted" THEN m
    ELSE [kind |-> "paletted", src |-> m.src, palette |-> "mediancut"]

\* processJpeg on the file behind path p: [err, frame].
processJpeg(es, p) ==
    IF es[p].data = "noperm" THEN [err |-> "open", frame |-> Nil]
    ELSE IF es[p].data # "jpeg" THEN [err |-> "decode", frame |-> Nil]
    ELSE [err |-> "none", frame |-> imageToPaletted(Decoded(p))]

\* Mutant: the delay is rounded to the nearest hundredth instead of truncated.
DelayTicksRounded(ms) == (ms + 5) \div 10

\* int(*delayMs / 10)
DelayTicks(ms) == ms \div 10

\* ------------------------------------------------------------ encoding
\* gif.EncodeAll's stream for frames 1..k: header and one image block each.
RECURSIVE ImageBlocks(_, _, _)
ImageBlocks(imgs, delays, k) ==
    IF k = 0 THEN << Block("header", Nil, 0) >>
    ELSE Append(ImageBlocks(imgs, delays, k - 1), Block("image", imgs[k], delays[k]))

Encoded(imgs, delays) ==
    Append(ImageBlocks(imgs, delays, Len(imgs)), Block("trailer", Nil, 0))

\* Index of the first nil frame, 0 if there is none.
FirstNil(imgs) ==
    IF \E i \in 1..Len(imgs) : imgs[i] = Nil
    THEN CHOOSE i \in 1..Len(imgs) : imgs[i] = Nil /\ \A j \in 1..(i - 1) : imgs[j] # Nil
    ELSE 0

\* Writing w at offset 0 of a file opened without O_TRUNC.
Overlay(old, w) ==
    IF Len(w) >= Len(old) THEN w
    ELSE w \o SubSeq(old, Len(w) + 1, Len(old))

\* ------------------------------------------------------------ initial states
\* The state of main() before its first statement.
Fresh ==
    /\ pc = "start"
    /\ exit = 0
    /\ report = "none"
    /\ fileErrs = 0
    /\ imgPaths = << >>
    /\ Image = << >>
    /\ Delay = << >>
    /\ next = 1
    /\ tpc = << >>
    /\ frame = << >>
    /\ sem = 0
    /\ mutex = 0
    /\ wg = 0
    /\ bar = 0
    /\ order = << >>
    /\ nOpen = 0
    /\ gifFile = FALSE
    /\ fsWrites = 0
    /\ run = 1
    /\ first = << >>
    /\ calls = << >>

InitWith(b) ==
    /\ build = b
    /\ version \in BOOLEAN
    /\ nargs \in 0..2
    /\ delayMs \in DelayChoices
    /\ numcpus \in 1..MaxCPUs
    /\ rootOk \in BOOLEAN
    /\ entries \in SeqsUpTo(EntryKinds, MaxEntries)
    /\ outFile \in {Absent} \cup PriorFiles
    /\ Fresh
    /\ img = Nil
    /\ pm = << >>

Init == InitWith("main.go")

\* Reports of the returns and panics of main() that precede the allocation.
EarlyReports ==
    { "version", "output file already exists", "usage", "wrong number of arguments",
      "you need to specify a single argument", "panic: walk",
      "could not find any jpeg files" }

\* ------------------------------------------------------------ main()
\* return from main with a logged message
Return(msg) ==
    /\ pc' = "exit"
    /\ exit' = 0
    /\ report' = msg

\* if *version { ... return }
CheckVersion ==
    /\ pc = "start"
    /\ IF version
       THEN Return("version")
       ELSE pc' = "stat" /\ UNCHANGED << exit, report >>
    /\ UNCHANGED << inputs, fileErrs, mainLocals, gifInfo, tpc, frame, sync, progress,
                    nOpen, fs, twoRuns, calls, quant >>

\* Mutant: the test is err != nil && !os.IsNotExist(err), which an existing
\* file (err == nil) passes.
StatOutfileErrOnly ==
    /\ pc = "stat"
    /\ pc' = "args"
    /\ UNCHANGED << exit, report >>
    /\ UNCHANGED << inputs, fileErrs, mainLocals, gifInfo, tpc, frame, sync, progress,
                    nOpen, fs, twoRuns, calls, quant >>

\* os.Stat(*outfile); if !os.IsNotExist(err) { ... return }
StatOutfile ==
    /\ pc = "stat"
    /\ IF outFile.exists
       THEN Return("output file already exists")
       ELSE pc' = "args" /\ UNCHANGED << exit, report >>
    /\ UNCHANGED << inputs, fileErrs, mainLocals, gifInfo, tpc, frame, sync, progress,
                    nOpen, fs, twoRuns, calls, quant >>

\* the checks on len(flag.Args())
CheckArgs ==
    /\ pc = "args"
    /\ IF build = "main.go"
       THEN IF nargs = 0 THEN Return("usage")
            ELSE IF nargs > 1 THEN Return("wrong number of arguments")
            ELSE pc' = "walk" /\ UNCHANGED << exit, report >>
       ELSE IF nargs # 1 THEN Return("you need to specify a single argument")
            ELSE pc' = "walk" /\ UNCHANGED << exit, report >>
    /\ UNCHANGED << inputs, fileErrs, mainLocals, gifInfo, tpc, frame, sync, progress,
                    nOpen, fs, twoRuns, calls, quant >>

\* filepath.Walk(dirname, ...): when the root cannot be lstat'ed the callback
\* gets a nil info and info.IsDir() panics.
Walk ==
    /\ pc = "walk"
    /\ IF rootOk
       THEN /\ imgPaths' = WalkFrom(<< >>, entries, 1)
            /\ pc' = "walked"
            /\ UNCHANGED << exit, report >>
       ELSE /\ pc' = "exit"
            /\ exit' = 2
            /\ report' = "panic: walk"
            /\ UNCHANGED imgPaths
    /\ UNCHANGED << inputs, fileErrs, next, gifInfo, tpc, frame, sync, progress,
                    nOpen, fs, twoRuns, calls, quant >>

\* if err != nil {...}: the callback always returns nil, so err is nil here.
\* if len(imgPaths) == 0 {...}: only in main.go.
CheckPaths ==
    /\ pc = "walked"
    /\ IF build = "main.go" /\ Len(imgPaths) = 0
       THEN Return("could not find any jpeg files")
       ELSE pc' = "alloc" /\ UNCHANGED << exit, report >>
    /\ UNCHANGED << inputs, fileErrs, mainLocals, gifInfo, tpc, frame, sync, progress,
                    nOpen, fs, twoRuns, calls, quant >>

\* gifInfo.Image = make(...); gifInfo.Delay = make(...); wg; sem; bar
Alloc ==
    /\ pc = "alloc"
    /\ Image' = [i \in 1..Len(imgPaths) |-> Nil]
    /\ Delay' = [i \in 1..Len(imgPaths) |-> 0]
    /\ tpc' = [i \in 1..Len(imgPaths) |-> "idle"]
    /\ frame' = [i \in 1..Len(imgPaths) |-> Nil]
    /\ sem' = 0
    /\ wg' = 0
    /\ bar' = 0
    /\ order' = << >>
    /\ next' = 1
    /\ calls' = [i \in 1..Len(imgPaths) |-> 0]
    /\ pc' = IF Len(imgPaths) = 0 THEN "wait" ELSE "spawn"
    /\ UNCHANGED << inputs, exit, report, fileErrs, imgPaths, mutex, nOpen, fs, twoRuns,
                    quant >>

\* one iteration of the range loop: wg.Add(1); go func(jpeg, i)
Spawn ==
    /\ pc = "spawn"
    /\ wg' = wg + 1
    /\ tpc' = [tpc EXCEPT ![next] = "acquire"]
    /\ next' = next + 1
    /\ pc' = IF next = Len(imgPaths) THEN "wait" ELSE "spawn"
    /\ UNCHANGED << inputs, exit, report, fileErrs, imgPaths, gifInfo, frame, sem,
                    mutex, progress, nOpen, fs, twoRuns, calls, quant >>

\* Mutant: main() does not wait for the goroutines.
WaitNoJoin ==
    /\ pc = "wait"
    /\ pc' = "open"
    /\ UNCHANGED << inputs, exit, report, fileErrs, mainLocals, gifInfo, tpc, frame,
                    sync, progress, nOpen, fs, twoRuns, calls, quant >>

\* wg.Wait(); bar.Finish()
Wait ==
    /\ pc = "wait"
    /\ wg = 0
    /\ pc' = "open"
    /\ UNCHANGED << inputs, exit, report, fileErrs, mainLocals, gifInfo, tpc, frame,
                    sync, progress, nOpen, fs, twoRuns, calls, quant >>

\* os.OpenFile(*outfile, os.O_CREATE|os.O_WRONLY, os.ModePerm): creates the
\* file when it is absent, opens it as it is when it exists; may fail.
OpenOutfile ==
    /\ pc = "open"
    /\ \E fails \in BOOLEAN :
          IF fails
          THEN Return("While creating gif file") /\ UNCHANGED fs
          ELSE /\ pc' = "encode"
               /\ gifFile' = TRUE
               /\ outFile' = IF outFile.exists THEN outFile
                            ELSE [exists |-> TRUE, by |-> "giffer", data |-> << >>]
               /\ fsWrites' = IF outFile.exists THEN fsWrites ELSE fsWrites + 1
               /\ UNCHANGED << exit, report >>
    /\ UNCHANGED << inputs, fileErrs, mainLocals, gifInfo, tpc, frame, sync, progress,
                    nOpen, twoRuns, calls, quant >>

\* What gif.EncodeAll wrote when it stopped at frame k without finishing: the
\* buffered writer has flushed nothing, or the stream up to some earlier frame.
Partial(imgs, delays, k) ==
    { << >> } \cup { ImageBlocks(imgs, delays, j) : j \in 0..(k - 1) }

\* The bytes main() wrote land at offset 0 of the output file.
WriteOut(w) ==
    /\ outFile' = [outFile EXCEPT !.data = Overlay(outFile.data, w)]
    /\ fsWrites' = IF w = << >> THEN fsWrites ELSE fsWrites + 1

\* defer gifFile.Close(); gif.EncodeAll(gifFile, gifInfo)
Encode ==
    /\ pc = "encode"
    /\ gifFile' = FALSE
    /\ pc' = "exit"
    /\ IF Len(Image) = 0
       THEN \* "gif: must provide at least one image"
            /\ exit' = 0
            /\ report' = "While encoding gif file"
            /\ UNCHANGED << outFile, fsWrites >>
       ELSE IF FirstNil(Image) = 1
       THEN \* g.Image[0].Bounds() on a nil pointer
            /\ exit' = 2
            /\ report' = "panic: encode"
            /\ UNCHANGED << outFile, fsWrites >>
       ELSE IF FirstNil(Image) > 1
       THEN \* writeImageBlock on a nil pointer
            /\ exit' = 2
            /\ report' = "panic: encode"
            /\ \E w \in Partial(Image, Delay, FirstNil(Image)) : WriteOut(w)
       ELSE \E ioErr \in BOOLEAN :
              IF ioErr
              THEN /\ exit' = 0
                   /\ report' = "While encoding gif file"
                   /\ \E w \in Partial(Image, Delay, Len(Image) + 1) : WriteOut(w)
              ELSE /\ exit' = 0
                   /\ UNCHANGED report
                   /\ WriteOut(Encoded(Image, Delay))
    /\ UNCHANGED << inputs, fileErrs, mainLocals, gifInfo, tpc, frame, sync, progress,
                    nOpen, twoRuns, calls, quant >>

\* Mutant: the semaphore has a single unit whatever numcpus is.
AcquireSingle(i) ==
    /\ tpc[i] = "acquire"
    /\ sem < 1
    /\ sem' = sem + 1
    /\ tpc' = [tpc EXCEPT ![i] = "open"]
    /\ UNCHANGED << inputs, pc, exit, report, fileErrs, mainLocals, gifInfo, frame,
                    mutex, wg, progress, nOpen, fs, twoRuns, calls, quant >>

\* ------------------------------------------------------------ goroutine i
\* Mutant: the goroutine does not wait for a free unit.
AcquireUnbounded(i) ==
    /\ tpc[i] = "acquire"
    /\ sem' = sem + 1
    /\ tpc' = [tpc EXCEPT ![i] = "open"]
    /\ UNCHANGED << inputs, pc, exit, report, fileErrs, mainLocals, gifInfo, frame,
                    mutex, wg, progress, nOpen, fs, twoRuns, calls, quant >>

\* _ = sem.Acquire(context.Background(), 1): blocks until a unit is free
Acquire(i) ==
    /\ tpc[i] = "acquire"
    /\ sem < numcpus
    /\ sem' = sem + 1
    /\ tpc' = [tpc EXCEPT ![i] = "open"]
    /\ UNCHANGED << inputs, pc, exit, report, fileErrs, mainLocals, gifInfo, frame,
                    mutex, wg, progress, order, nOpen, fs, twoRuns, calls, quant >>

\* processJpeg: os.Open(path); on error return err, nil
OpenJpeg(i) ==
    /\ tpc[i] = "open"
    /\ IF processJpeg(entries, imgPaths[i]).err = "open"
       THEN /\ frame' = [frame EXCEPT ![i] = Nil]
            /\ fileErrs' = fileErrs + 1
            /\ tpc' = [tpc EXCEPT ![i] = "lock"]
            /\ UNCHANGED nOpen
       ELSE /\ nOpen' = nOpen + 1
            /\ tpc' = [tpc EXCEPT ![i] = "decode"]
            /\ UNCHANGED << frame, fileErrs >>
    /\ calls' = [calls EXCEPT ![i] = calls[i] + 1]
    /\ UNCHANGED << inputs, pc, exit, report, mainLocals, gifInfo, sync, progress, fs,
                    twoRuns, quant >>

\* A regular file with a jpeg extension whose read never ends (a pipe nobody
\* writes to): jpeg.Decode(f) does not return on it.
HangKind == [isDir |-> FALSE, ext |-> "jpeg", data |-> "hang"]

\* The decode of goroutine i never returns.
Hangs(i) == entries[imgPaths[i]].data = "hang"

\* Mutant: the source file is closed on the success path only.
DecodeJpegLeakOnErr(i) ==
    /\ tpc[i] = "decode"
    /\ ~Hangs(i)
    /\ frame' = [frame EXCEPT ![i] = processJpeg(entries, imgPaths[i]).frame]
    /\ fileErrs' = IF processJpeg(entries, imgPaths[i]).err = "none"
                   THEN fileErrs ELSE fileErrs + 1
    /\ nOpen' = IF processJpeg(entries, imgPaths[i]).err = "none" THEN nOpen - 1 ELSE nOpen
    /\ tpc' = [tpc EXCEPT ![i] = "lock"]
    /\ UNCHANGED << inputs, pc, exit, report, mainLocals, gifInfo, sync, progress, fs,
                    twoRuns, calls, quant >>

\* Mutant: a failed decode is tried again.
DecodeJpegRetry(i) ==
    /\ tpc[i] = "decode"
    /\ ~Hangs(i)
    /\ frame' = [frame EXCEPT ![i] = processJpeg(entries, imgPaths[i]).frame]
    /\ fileErrs' = IF processJpeg(entries, imgPaths[i]).err = "none"
                   THEN fileErrs ELSE fileErrs + 1
    /\ nOpen' = nOpen - 1
    /\ tpc' = [tpc EXCEPT ![i] = IF processJpeg(entries, imgPaths[i]).err = "none"
                                 THEN "lock" ELSE "open"]
    /\ UNCHANGED << inputs, pc, exit, report, mainLocals, gifInfo, sync, progress, fs,
                    twoRuns, calls, quant >>

\* Mutant: after a failed decode the goroutine returns without writing its slot.
DecodeJpegReturnOnErr(i) ==
    /\ tpc[i] = "decode"
    /\ ~Hangs(i)
    /\ frame' = [frame EXCEPT ![i] = processJpeg(entries, imgPaths[i]).frame]
    /\ fileErrs' = IF processJpeg(entries, imgPaths[i]).err = "none"
                   THEN fileErrs ELSE fileErrs + 1
    /\ nOpen' = nOpen - 1
    /\ tpc' = [tpc EXCEPT ![i] = IF processJpeg(entries, imgPaths[i]).err = "none"
                                 THEN "lock" ELSE "release"]
    /\ UNCHANGED << inputs, pc, exit, report, mainLocals, gifInfo, sync, progress, fs,
                    twoRuns, calls, quant >>

\* processJpeg: jpeg.Decode(f), imageToPaletted(img), deferred f.Close()
DecodeJpeg(i) ==
    /\ tpc[i] = "decode"
    /\ ~Hangs(i)
    /\ frame' = [frame EXCEPT ![i] = processJpeg(entries, imgPaths[i]).frame]
    /\ fileErrs' = IF processJpeg(entries, imgPaths[i]).err = "none"
                   THEN fileErrs ELSE fileErrs + 1
    /\ nOpen' = nOpen - 1
    /\ tpc' = [tpc EXCEPT ![i] = "lock"]
    /\ UNCHANGED << inputs, pc, exit, report, mainLocals, gifInfo, sync, progress, fs,
                    twoRuns, calls, quant >>

\* Mutant: the goroutine does not wait for the mutex.
LockNoWait(i) ==
    /\ tpc[i] = "lock"
    /\ mutex' = i
    /\ tpc' = [tpc EXCEPT ![i] = "write"]
    /\ UNCHANGED << inputs, pc, exit, report, fileErrs, mainLocals, gifInfo, frame,
                    sem, wg, progress, nOpen, fs, twoRuns, calls, quant >>

\* mutex.Lock()
Lock(i) ==
    /\ tpc[i] = "lock"
    /\ mutex = 0
    /\ mutex' = i
    /\ tpc' = [tpc EXCEPT ![i] = "write"]
    /\ UNCHANGED << inputs, pc, exit, report, fileErrs, mainLocals, gifInfo, frame,
                    sem, wg, progress, nOpen, fs, twoRuns, calls, quant >>

\* Mutant: the closure reads the loop variable instead of its own parameter i.
WriteSlotCaptured(i) ==
    /\ tpc[i] = "write"
    /\ Image' = [Image EXCEPT ![next - 1] = frame[i]]
    /\ Delay' = [Delay EXCEPT ![next - 1] = DelayTicks(delayMs)]
    /\ bar' = bar + 1
    /\ order' = Append(order, next - 1)
    /\ tpc' = [tpc EXCEPT ![i] = "unlock"]
    /\ UNCHANGED << inputs, pc, exit, report, fileErrs, mainLocals, frame, sync,
                    nOpen, fs, twoRuns, calls, quant >>

\* Mutant: results are stored in completion order, not at the path's index.
WriteSlotAppend(i) ==
    /\ tpc[i] = "write"
    /\ Image' = [Image EXCEPT ![bar + 1] = frame[i]]
    /\ Delay' = [Delay EXCEPT ![bar + 1] = DelayTicks(delayMs)]
    /\ bar' = bar + 1
    /\ order' = Append(order, i)
    /\ tpc' = [tpc EXCEPT ![i] = "unlock"]
    /\ UNCHANGED << inputs, pc, exit, report, fileErrs, mainLocals, frame, sync,
                    nOpen, fs, twoRuns, calls, quant >>

\* Removing position k from a sequence.
Without(q, k) == [j \in 1..(Len(q) - 1) |-> IF j < k THEN q[j] ELSE q[j + 1]]

\* Mutant: a failed decode removes its slot instead of leaving nil in it.
WriteSlotDropNil(i) ==
    /\ tpc[i] = "write"
    /\ IF frame[i] = Nil /\ i \in DOMAIN Image
       THEN Image' = Without(Image, i) /\ Delay' = Without(Delay, i)
       ELSE /\ Image' = [Image EXCEPT ![i] = frame[i]]
            /\ Delay' = [Delay EXCEPT ![i] = DelayTicks(delayMs)]
    /\ bar' = bar + 1
    /\ order' = Append(order, i)
    /\ tpc' = [tpc EXCEPT ![i] = "unlock"]
    /\ UNCHANGED << inputs, pc, exit, report, fileErrs, mainLocals, frame, sync,
                    nOpen, fs, twoRuns, calls, quant >>

\* gifInfo.Image[i] = frame; gifInfo.Delay[i] = int(*delayMs / 10); bar.Increment()
WriteSlot(i) ==
    /\ tpc[i] = "write"
    /\ Image' = [Image EXCEPT ![i] = frame[i]]
    /\ Delay' = [Delay EXCEPT ![i] = DelayTicks(delayMs)]
    /\ bar' = bar + 1
    /\ order' = Append(order, i)
    /\ tpc' = [tpc EXCEPT ![i] = "unlock"]
    /\ UNCHANGED << inputs, pc, exit, report, fileErrs, mainLocals, frame, sync,
                    nOpen, fs, twoRuns, calls, quant >>

\* mutex.Unlock()
Unlock(i) ==
    /\ tpc[i] = "unlock"
    /\ mutex' = 0
    /\ tpc' = [tpc EXCEPT ![i] = "release"]
    /\ UNCHANGED << inputs, pc, exit, report, fileErrs, mainLocals, gifInfo, frame,
                    sem, wg, progress, nOpen, fs, twoRuns, calls, quant >>

\* Mutant: the unit is released after a successful decode only.
ReleaseOnSuccess(i) ==
    /\ tpc[i] = "release"
    /\ sem' = IF frame[i] = Nil THEN sem ELSE sem - 1
    /\ tpc' = [tpc EXCEPT ![i] = "done"]
    /\ UNCHANGED << inputs, pc, exit, report, fileErrs, mainLocals, gifInfo, frame,
                    mutex, wg, progress, nOpen, fs, twoRuns, calls, quant >>

\* Mutant: the goroutine never gives its unit back.
ReleaseForgotten(i) ==
    /\ tpc[i] = "release"
    /\ tpc' = [tpc EXCEPT ![i] = "done"]
    /\ UNCHANGED << inputs, pc, exit, report, fileErrs, mainLocals, gifInfo, frame,
                    sync, progress, nOpen, fs, twoRuns, calls, quant >>

\* deferred sem.Release(1)
Release(i) ==
    /\ tpc[i] = "release"
    /\ sem' = sem - 1
    /\ tpc' = [tpc EXCEPT ![i] = "done"]
    /\ UNCHANGED << inputs, pc, exit, report, fileErrs, mainLocals, gifInfo, frame,
                    mutex, wg, progress, order, nOpen, fs, twoRuns, calls, quant >>

\* deferred wg.Done()
Done(i) ==
    /\ tpc[i] = "done"
    /\ wg' = wg - 1
    /\ tpc' = [tpc EXCEPT ![i] = "end"]
    /\ UNCHANGED << inputs, pc, exit, report, fileErrs, mainLocals, gifInfo, frame,
                    sem, mutex, progress, nOpen, fs, twoRuns, calls, quant >>

Task(i) ==
    \/ Acquire(i)
    \/ OpenJpeg(i)
    \/ DecodeJpeg(i)
    \/ Lock(i)
    \/ WriteSlot(i)
    \/ Unlock(i)
    \/ Release(i)
    \/ Done(i)

\* ------------------------------------------------------------ environment
\* Another process creates a file at the output path after the existence
\* check of main().  The run looks at the path again only in os.OpenFile, so
\* the creation is placed right before that call.
OtherCreates ==
    /\ pc = "open"
    /\ ~outFile.exists
    /\ outFile' \in PriorFiles
    /\ UNCHANGED << inputs, pc, exit, report, fileErrs, mainLocals, gifInfo, tpc,
                    frame, sync, progress, nOpen, gifFile, fsWrites, twoRuns, calls, quant >>

Main ==
    \/ CheckVersion
    \/ StatOutfile
    \/ CheckArgs
    \/ Walk
    \/ CheckPaths
    \/ Alloc
    \/ Spawn
    \/ Wait
    \/ OpenOutfile
    \/ Encode

Next ==
    \/ Main
    \/ \E i \in Tasks : Task(i)
    \/ OtherCreates

Spec == Init /\ [][Next]_vars

\* The Go scheduler runs every runnable goroutine, main() included: a step
\* that stays possible is eventually taken.  Nothing obliges another process
\* to create the output file.
TaskStep(i) == i \in Tasks /\ Task(i)

Fairness ==
    /\ WF_vars(Main)
    /\ \A i \in 1..MaxEntries : WF_vars(TaskStep(i))

SpecLive == Init /\ [][Next]_vars /\ Fairness

\* The main() of src/unnamed/part_001.
InitOld == InitWith("part_001")

SpecOld == InitOld /\ [][Next]_vars

\* ------------------------------------------------------------ imageToPaletted alone
\* The images imageToPaletted can be given: decoded images of the kinds
\* jpeg.Decode returns and images that are palette-indexed already, with their
\* own palette or with one the quantizer made.
Images ==
    { [kind |-> k, src |-> s, palette |-> "none"] :
          k \in {"ycbcr", "gray", "cmyk"}, s \in 1..MaxPictures }
    \cup { [kind |-> "paletted", src |-> s, palette |-> p] :
              s \in 1..MaxPictures, p \in {"own", "mediancut"} }

InitQuantize ==
    /\ build = "main.go"
    /\ version = FALSE
    /\ nargs = 1
    /\ delayMs = 100
    /\ numcpus = 1
    /\ rootOk = TRUE
    /\ entries = << >>
    /\ outFile = Absent
    /\ Fresh
    /\ img \in Images
    /\ pm = << >>

\* imageToPaletted applied to img, then to its own result, and so on.
Quantize ==
    /\ Len(pm) < MaxApply
    /\ pm' = Append(pm, imageToPaletted(IF pm = << >> THEN img ELSE pm[Len(pm)]))
    /\ UNCHANGED << inputs, pc, exit, report, fileErrs, mainLocals, gifInfo, tpc, frame,
                    sync, progress, nOpen, fs, twoRuns, calls, img >>

NextQuantize == Quantize

SpecQuantize == InitQuantize /\ [][NextQuantize]_vars

\* ------------------------------------------------------------ two runs
\* The same command on the same directory, first on a host with one CPU and,
\* when that run has ended, again on a host with more, the output path absent
\* as it was before the first run.  The result of the first run is kept.
Rerun ==
    /\ run = 1
    /\ pc = "exit"
    /\ report \notin EarlyReports
    /\ run' = 2
    /\ first' = [Image |-> Image, Delay |-> Delay, encoded |-> Encoded(Image, Delay)]
    /\ numcpus' \in 2..MaxCPUs
    /\ pc' = "start"
    /\ exit' = 0
    /\ report' = "none"
    /\ fileErrs' = 0
    /\ imgPaths' = << >>
    /\ Image' = << >>
    /\ Delay' = << >>
    /\ next' = 1
    /\ tpc' = << >>
    /\ frame' = << >>
    /\ sem' = 0
    /\ mutex' = 0
    /\ wg' = 0
    /\ bar' = 0
    /\ order' = << >>
    /\ nOpen' = 0
    /\ outFile' = Absent
    /\ gifFile' = FALSE
    /\ fsWrites' = 0
    /\ calls' = << >>
    /\ UNCHANGED << build, version, nargs, delayMs, rootOk, entries, quant >>

InitTwoRuns == InitWith("main.go") /\ numcpus = 1

NextTwoRuns == Next \/ Rerun

SpecTwoRuns == InitTwoRuns /\ [][NextTwoRuns]_vars

\* ------------------------------------------------------------ positions
\* main() is past wg.Wait().
Joined == pc \in {"open", "encode"} \/ (pc = "exit" /\ report \notin EarlyReports)

\* main() is past the allocation of gifInfo.Image and gifInfo.Delay.
Allocated == pc \in {"spawn", "wait"} \/ Joined

\* Goroutine i has made its slot write.
Written(i) == tpc[i] \in {"unlock", "release", "done", "end"}

\* Goroutine i holds a unit of the semaphore.
Holding(i) == tpc[i] \in {"open", "decode", "lock", "write", "unlock", "release"}

Result(i) == processJpeg(entries, imgPaths[i])

\* ------------------------------------------------------------ properties

\* C1: once main() is past wg.Wait(), slot i of gifInfo.Image holds the result
\* (frame or nil) of processJpeg on the i-th collected path, for every i,
\* whatever the order in which the goroutines finished and whatever numcpus is.
C1_SlotOrder ==
    Joined =>
        /\ Len(Image) = Len(imgPaths)
        /\ \A i \in 1..Len(imgPaths) : Image[i] = Result(i).frame

\* A joined run of at least two paths, with a frame and a nil among the
\* results, in which slot 1 was not the first slot written.
C1_Witness ==
    /\ Joined
    /\ Len(imgPaths) >= 2
    /\ Len(order) = Len(imgPaths)
    /\ order[1] # 1
    /\ \E i, j \in 1..Len(imgPaths) : Image[i] = Nil /\ Image[j] # Nil

\* C2: from the allocation onward gifInfo.Image, gifInfo.Delay and imgPaths
\* have the same length, and a goroutine whose decode failed has left nil in
\* its own slot while every other written slot still holds its own result.
C2_Lengths ==
    Allocated =>
        /\ Len(Image) = Len(imgPaths)
        /\ Len(Delay) = Len(imgPaths)
        /\ \A i \in 1..Len(imgPaths) :
              Written(i) => Image[i] = Result(i).frame

\* A failed decode has been written before the goroutine of a later path.
C2_Witness ==
    /\ Allocated
    /\ \E i, j \in 1..Len(imgPaths) :
          /\ i < j
          /\ Written(i) /\ Result(i).err # "none" /\ Image[i] = Nil
          /\ ~Written(j) /\ Result(j).err = "none"

\* C3: the goroutines that hold a semaphore unit (those that may be inside
\* processJpeg) are never more than numcpus, also with more paths than numcpus.
C3_Bound ==
    /\ sem <= numcpus
    /\ Cardinality({ i \in Tasks : Holding(i) }) <= numcpus
    /\ Cardinality({ i \in Tasks : tpc[i] \in {"open", "decode"} }) <= numcpus

\* More paths than units: every unit is held and a goroutine waits for one.
C3_Witness ==
    /\ Len(imgPaths) > numcpus
    /\ sem = numcpus
    /\ Cardinality({ i \in Tasks : tpc[i] \in {"open", "decode"} }) = numcpus
    /\ \E i \in Tasks : tpc[i] = "acquire"

\* C4: on the same paths with the same decode outcomes, a run with numcpus = 1
\* and a run with numcpus > 1 are past the join with the same frames and the
\* same delays, hence the same encoded stream, whatever the interleavings.
C4_SameResult ==
    (run = 2 /\ Joined) =>
        /\ Image = first.Image
        /\ Delay = first.Delay
        /\ Encoded(Image, Delay) = first.encoded

\* The second run, on more than one CPU, has joined after writing its slots
\* out of index order, with frames and nils among the results.
C4_Witness ==
    /\ run = 2
    /\ Joined
    /\ numcpus > 1
    /\ Len(imgPaths) >= 2
    /\ Head(order) # 1
    /\ \E i, j \in 1..Len(imgPaths) : Image[i] = Nil /\ Image[j] # Nil

\* C5: no partial-success artifact: when the run has ended, a file made by
\* this run exists at the output path only if every slot holds a frame and the
\* file holds the complete encoded gif.
C5_NoPartialArtifact ==
    (pc = "exit" /\ outFile.exists /\ outFile.by = "giffer") =>
        /\ Len(Image) > 0
        /\ \A i \in 1..Len(Image) : Image[i] # Nil
        /\ outFile.data = Encoded(Image, Delay)

\* C6: the output path is opened exclusively for creation: when a file made
\* by another process is at the output path, opening it for writing fails and
\* no step of the run changes its content.
C6_NeverOverwrites ==
    [][ (outFile.exists /\ outFile.by = "other") =>
            /\ outFile' = outFile
            /\ pc = "open" => pc' # "encode" ]_vars

\* C7: when the output path exists as a run (without -v) starts, the run
\* ends at the existence check with the output-exists error: nothing has been
\* walked, no goroutine exists, no semaphore unit is held, no source file is
\* open and the run has written nothing.
C7_AbortFirst ==
    [][ (pc \in {"start", "stat"} /\ ~version /\ outFile.exists) =>
            /\ pc = "start" => pc' = "stat"
            /\ pc = "stat" => (pc' = "exit" /\ report' = "output file already exists")
            /\ imgPaths' = << >>
            /\ tpc' = << >>
            /\ sem' = 0
            /\ nOpen' = 0
            /\ fsWrites' = 0
            /\ outFile' = outFile ]_vars

\* The run has ended with the output-exists error on a command line and a
\* directory that would otherwise have given it jpeg files to decode.
C7_Witness ==
    /\ pc = "exit"
    /\ report = "output file already exists"
    /\ nargs = 1
    /\ rootOk
    /\ Len(WalkFrom(<< >>, entries, 1)) >= 2
    /\ imgPaths = << >>
    /\ outFile.by = "other"

\* C8: main() opens the output file only after every goroutine has ended, so
\* from the join on every slot has been written once and no slot changes.
C8_JoinBarrier ==
    /\ [](Joined =>
            /\ wg = 0
            /\ \A i \in Tasks : tpc[i] = "end"
            /\ Len(order) = Len(imgPaths)
            /\ { order[k] : k \in 1..Len(order) } = 1..Len(imgPaths))
    /\ [][ Joined => (Image' = Image /\ Delay' = Delay /\ order' = order) ]_vars

\* main() is about to open the output file after a join of three goroutines.
C8_Witness ==
    /\ pc = "open"
    /\ Len(imgPaths) = 3
    /\ bar = 3
    /\ \A i \in Tasks : tpc[i] = "end"

\* C9: the units held are exactly one per goroutine between its Acquire and
\* its deferred Release, whether processJpeg succeeded or failed, and none is
\* held once every goroutine is past its Release.
C9_SemBalance ==
    /\ sem = Cardinality({ i \in Tasks : Holding(i) })
    /\ (\A i \in Tasks : tpc[i] \in {"done", "end"}) => sem = 0
    /\ Joined => sem = 0

\* All goroutines have ended after an open failure, a decode failure and a
\* successful decode, and no unit is held.
C9_Witness ==
    /\ Joined
    /\ sem = 0
    /\ \E i, j, k \in 1..Len(imgPaths) :
          /\ Result(i).err = "open"
          /\ Result(j).err = "decode"
          /\ Result(k).err = "none"

\* Reports of the returns and panics of main() that precede the walk's result.
PreWalkReports == EarlyReports \ { "could not find any jpeg files" }

\* The walk has returned and has collected no path.
WalkedEmpty ==
    /\ pc \notin {"start", "stat", "args", "walk"}
    /\ ~(pc = "exit" /\ report \in PreWalkReports)
    /\ Len(imgPaths) = 0

\* C10: when the walk finds no jpeg file the run reports the no-input error
\* and ends: gifInfo is not allocated, no goroutine is spawned and no output
\* file is created.
C10_EmptyStops ==
    WalkedEmpty =>
        /\ pc \in {"walked", "exit"}
        /\ pc = "exit" => report = "could not find any jpeg files"
        /\ tpc = << >>
        /\ fsWrites = 0
        /\ ~(outFile.exists /\ outFile.by = "giffer")

\* Reports of the structural failures of a run.
StructuralFailures ==
    { "output file already exists", "panic: walk", "error while looking for jpeg files",
      "could not find any jpeg files", "While creating gif file",
      "While encoding gif file", "panic: encode" }

\* The output file starts with the complete encoded gif.
CompleteGif ==
    /\ outFile.exists
    /\ Len(Image) > 0
    /\ \A i \in 1..Len(Image) : Image[i] # Nil
    /\ Len(outFile.data) >= Len(Encoded(Image, Delay))
    /\ SubSeq(outFile.data, 1, Len(Encoded(Image, Delay))) = Encoded(Image, Delay)

\* C11: a run that ended on a structural failure has a non-zero exit status
\* and a reported message, and exit status 0 is produced only after a complete
\* gif was written or on the version and usage paths.
C11_ExitStatus ==
    pc = "exit" =>
        /\ report \in StructuralFailures => exit # 0
        /\ exit = 0 => (report \in {"version", "usage"} \/ (report = "none" /\ CompleteGif))

\* C12: when the root cannot be lstat'ed, a run that reaches the walk ends
\* with the reported walk error, not with a panic, and has spawned no
\* goroutine and created no output file.
C12_WalkError ==
    (~rootOk /\ pc = "exit" /\ report \notin (PreWalkReports \ {"panic: walk"})) =>
        /\ report = "error while looking for jpeg files"
        /\ exit # 2
        /\ tpc = << >>
        /\ ~(outFile.exists /\ outFile.by = "giffer")

\* The image blocks of a stream.
ImagesOf(data) == SelectSeq(data, LAMBDA b : b.tag = "image")

\* C13: past the join every delay slot, also one whose frame is nil, holds
\* delayMs / 10 truncated, which is 10 for the default 100 ms; a run on three
\* valid jpegs with 100 ms that wrote its gif wrote exactly three frames, each
\* with delay 10.
C13_Delays ==
    /\ Joined =>
          \A i \in 1..Len(imgPaths) :
              /\ Delay[i] * 10 <= delayMs
              /\ delayMs < (Delay[i] + 1) * 10
              /\ delayMs = 100 => Delay[i] = 10
    /\ (pc = "exit" /\ report = "none" /\ delayMs = 100 /\ Len(imgPaths) = 3) =>
          /\ Len(ImagesOf(outFile.data)) = 3
          /\ \A k \in 1..3 : ImagesOf(outFile.data)[k].delay = 10

\* Past the join of three goroutines with a delay that is no multiple of 10,
\* a slot with a nil frame and a slot with a frame both hold the delay.
C13_Witness ==
    /\ Joined
    /\ delayMs = 109
    /\ Len(imgPaths) = 3
    /\ \E i, j \in 1..3 : Image[i] = Nil /\ Delay[i] = 10 /\ Image[j] # Nil /\ Delay[j] = 10

\* C14: imageToPaletted returns an image that is palette-indexed already as
\* it is, so applying it to its own result changes nothing.
C14_Idempotent ==
    /\ (Len(pm) >= 1 /\ img.kind = "paletted") => pm[1] = img
    /\ \A k \in 2..Len(pm) : pm[k] = pm[1]

\* imageToPaletted has been applied twice, starting from an image that was
\* palette-indexed with a palette of its own.
C14_Witness ==
    /\ Len(pm) >= 2
    /\ img.kind = "paletted"
    /\ img.palette = "own"
    /\ pm[2] = img

\* Goroutine i is between mutex.Lock() and mutex.Unlock().
InMutex(i) == tpc[i] \in {"write", "unlock"}

\* C15: the frame slots, the delay slots and the progress counter change only
\* in a step of the goroutine that holds the mutex; at most one goroutine
\* holds it, and the holder is not inside processJpeg.
C15_Mutex ==
    /\ [](/\ Cardinality({ i \in Tasks : InMutex(i) }) <= 1
          /\ \A i \in Tasks : InMutex(i) <=> mutex = i
          /\ \A i \in Tasks : mutex = i => tpc[i] \notin {"open", "decode"})
    /\ [][ (pc \in {"spawn", "wait"} /\ (Image' # Image \/ Delay' # Delay \/ bar' # bar)) =>
               /\ mutex # 0
               /\ mutex' = mutex
               /\ tpc[mutex] = "write"
               /\ tpc'[mutex] = "unlock" ]_vars

\* One goroutine holds the mutex and is about to write its slot while another
\* one, back from processJpeg, waits for the mutex.
C15_Witness ==
    \E i, j \in Tasks :
        /\ mutex = i
        /\ tpc[i] = "write"
        /\ tpc[j] = "lock"
        /\ bar = 0

\* Goroutine i has been started and has not ended.
Unfinished(i) == tpc[i] \notin {"idle", "end"}

\* Goroutine i waits for a semaphore unit or for the mutex and cannot get it.
Blocked(i) ==
    \/ tpc[i] = "acquire" /\ sem >= numcpus
    \/ tpc[i] = "lock" /\ mutex # 0

\* C18: with every decode returning and a fair scheduler, every started
\* goroutine ends and main() gets past the join, for every number of paths
\* and every numcpus; in no state are all unfinished goroutines blocked on the
\* semaphore or the mutex.
C18_Terminates ==
    /\ [](\A i \in Tasks : Unfinished(i) => \E j \in Tasks : Unfinished(j) /\ ~Blocked(j))
    /\ \A i \in 1..MaxEntries : (i \in Tasks /\ tpc[i] = "acquire") ~> (i \in Tasks /\ tpc[i] = "end")
    /\ (pc = "spawn") ~> Joined

\* Past the join of more goroutines than there are semaphore units.
C18_Witness ==
    /\ Joined
    /\ Len(imgPaths) > numcpus
    /\ \A i \in Tasks : tpc[i] = "end"

\* Position of slot index i in the order of the slot writes, 0 if not written.
WrittenAt(i) ==
    IF \E k \in 1..Len(order) : order[k] = i
    THEN CHOOSE k \in 1..Len(order) : order[k] = i
    ELSE 0

\* processJpeg has failed in goroutine i and has returned.
FailedIn(i) ==
    /\ Result(i).err # "none"
    /\ tpc[i] \in {"lock", "write", "unlock", "release", "done", "end"}

\* C16: a failed processJpeg does not abort the pipeline: the goroutine still
\* writes nil and the delay into its own slot, gives its unit back and calls
\* wg.Done(); main() stays in the pipeline, and the run gets past the join
\* with every other slot holding its own result.
C16_FailureIsLocal ==
    /\ [](\A i \in Tasks : FailedIn(i) =>
            /\ pc \in {"spawn", "wait"} \/ Joined
            /\ frame[i] = Nil
            /\ Written(i) =>
                  (Image[i] = Nil /\ Delay[i] = DelayTicks(delayMs) /\ WrittenAt(i) > 0)
            /\ tpc[i] = "end" => (sem = Cardinality({ j \in Tasks : Holding(j) }) /\ wg < Len(imgPaths)))
    /\ \A i \in 1..MaxEntries :
          (i \in Tasks /\ FailedIn(i)) ~>
              (Joined /\ \A j \in 1..Len(imgPaths) : Image[j] = Result(j).frame)

\* Past the join: a decode failed and its nil was written before a later
\* path's goroutine wrote the frame it decoded.
C16_Witness ==
    /\ Joined
    /\ \E i, j \in 1..Len(imgPaths) :
          /\ Result(i).err = "decode" /\ Image[i] = Nil
          /\ Result(j).err = "none" /\ Image[j] # Nil
          /\ WrittenAt(i) > 0
          /\ WrittenAt(i) < WrittenAt(j)

\* C17: one goroutine per collected path; processJpeg is called once in each,
\* never again after a failure; each slot is written once, by the goroutine
\* of its index, in a step that changes frames[i], delays[i] and the progress
\* counter and leaves every other slot alone.
C17_OncePerPath ==
    /\ [](Allocated =>
            /\ Len(tpc) = Len(imgPaths)
            /\ Cardinality({ i \in Tasks : tpc[i] # "idle" }) = next - 1
            /\ Joined => next - 1 = Len(imgPaths)
            /\ \A i \in Tasks :
                  /\ calls[i] = IF tpc[i] \in {"idle", "acquire", "open"} THEN 0 ELSE 1
                  /\ Written(i) <=> WrittenAt(i) > 0
                  /\ Cardinality({ k \in 1..Len(order) : order[k] = i }) <= 1
            /\ bar = Len(order))
    /\ [][ (pc \in {"spawn", "wait"} /\ (Image' # Image \/ Delay' # Delay \/ order' # order)) =>
               /\ mutex \in Tasks
               /\ tpc[mutex] = "write"
               /\ order' = Append(order, mutex)
               /\ bar' = bar + 1
               /\ \A j \in Tasks \ {mutex} : Image'[j] = Image[j] /\ Delay'[j] = Delay[j]
               /\ UNCHANGED << frame, sem, wg, calls, nOpen, outFile, imgPaths >> ]_vars

\* Past the join of three goroutines, one of them after a failed decode:
\* three calls of processJpeg and three slot writes.
C17_Witness ==
    /\ Joined
    /\ Len(imgPaths) = 3
    /\ Len(order) = 3
    /\ \A i \in Tasks : calls[i] = 1
    /\ \E i \in Tasks : Result(i).err = "decode"

\* C20: every processJpeg call closes the file it opened before it returns,
\* after a decode failure as after a success, and a failed open leaves nothing
\* open: the open source files are those of the goroutines inside jpeg.Decode,
\* at most numcpus of them, and none once every goroutine has finished.
C20_HandlesClosed ==
    /\ nOpen = Cardinality({ i \in Tasks : tpc[i] = "decode" })
    /\ nOpen <= numcpus
    /\ nOpen <= sem
    /\ \A i \in Tasks : (Result(i).err = "open" => tpc[i] # "decode")
    /\ (Joined \/ (Allocated /\ \A i \in Tasks : tpc[i] = "end")) => nOpen = 0

\* Two files are open, the whole budget, after another goroutine has returned
\* from a failed decode.
C20_Witness ==
    /\ numcpus = 2
    /\ nOpen = 2
    /\ \E i \in Tasks : tpc[i] = "end" /\ Result(i).err = "decode"

\* The inputs of main.go with at most one file whose decode never returns.
InitHang ==
    /\ build = "main.go"
    /\ version \in BOOLEAN
    /\ nargs \in 0..2
    /\ delayMs \in DelayChoices
    /\ numcpus \in 1..MaxCPUs
    /\ rootOk \in BOOLEAN
    /\ entries \in SeqsUpTo(EntryKinds \cup {HangKind}, MaxEntries)
    /\ Cardinality({ k \in 1..Len(entries) : entries[k] = HangKind }) <= 1
    /\ outFile \in {Absent} \cup PriorFiles
    /\ Fresh
    /\ img = Nil
    /\ pm = << >>

SpecHang == InitHang /\ [][Next]_vars /\ Fairness

\* The walk collected the file whose decode never returns.
HangCollected == \E k \in 1..Len(imgPaths) : entries[imgPaths[k]].data = "hang"

\* main() is blocked in wg.Wait() on the one goroutine that sits in
\* jpeg.Decode; every other goroutine has written its slot and ended.
Stalled ==
    /\ pc = "wait"
    /\ wg = 1
    /\ sem = 1
    /\ \A i \in Tasks : IF Hangs(i) THEN tpc[i] = "decode"
                        ELSE tpc[i] = "end" /\ Image[i] = Result(i).frame

\* C19: a goroutine whose decode never returns stays in processJpeg holding
\* its one semaphore unit; with numcpus >= 2 and a fair scheduler every other
\* goroutine still acquires a unit, decodes, writes its slot and ends; main()
\* never gets past wg.Wait(), so it neither opens nor writes the output file.
C19_HangStalls ==
    /\ [][\A i \in Tasks : (Hangs(i) /\ tpc[i] = "decode") =>
              (tpc'[i] = "decode" /\ sem' >= 1 /\ nOpen' >= 1)]_vars
    /\ [](\A i \in Tasks : (Hangs(i) /\ tpc[i] = "decode") =>
              sem = Cardinality({ j \in Tasks : Holding(j) }))
    /\ [](HangCollected =>
              /\ ~Joined
              /\ ~gifFile
              /\ fsWrites = 0
              /\ pc = "wait" => wg >= 1)
    /\ \A i \in 1..MaxEntries :
          (numcpus >= 2 /\ HangCollected /\ i \in Tasks /\ ~Hangs(i)) ~>
              (i \in Tasks /\ tpc[i] = "end" /\ Written(i) /\ Image[i] = Result(i).frame)
    /\ (numcpus >= 2 /\ HangCollected /\ Allocated) ~> Stalled
    /\ [][Stalled => UNCHANGED vars]_vars

\* Two units, three collected files, the first of which hangs in its decode:
\* the other two have finished and main() waits.
C19_Witness ==
    /\ numcpus = 2
    /\ Len(imgPaths) = 3
    /\ Stalled
    /\ Hangs(1)
    /\ Result(2).err = "none"

====
